---- MODULE Spec2Model ----
(***************************************************************************)
(* Model of the screen-sharing session component (function App of          *)
(* src/unnamed/part_000): the React state, the refs, the PeerJS objects    *)
(* the component holds, and one action per user intent and per event       *)
(* handler.                                                                *)
(*                                                                         *)
(* React closures.  A handler registered inside useEffect([mode]) keeps    *)
(* the stopScreenShare of the render in which the effect ran, and that     *)
(* stopScreenShare reads the `stream` of that render: effStream.  The      *)
(* onended handler installed by startScreenShare keeps the stopScreenShare *)
(* of the render in which the button was clicked: streams[s].cap.  A       *)
(* button's onClick handler is the one of the current render and reads     *)
(* the current `stream`.                                                   *)
(*                                                                         *)
(* PeerJS.  close() on an open DataConnection or MediaConnection emits     *)
(* 'close' before it returns, so the registered 'close' handler runs       *)
(* inside the caller; peer.destroy() closes every connection of the peer.  *)
(* A MediaConnection is taken as open from the moment it is placed or      *)
(* answered until it is closed.                                            *)
(***************************************************************************)
EXTENDS Integers, Sequences, FiniteSets, TLC

\* Bounds of the model: objects created over a whole run.
MaxSessions == 2
MaxConns == 2
MaxCalls == 2
MaxStreams == 2
MaxPending == 2

PeerIds == 1..MaxSessions
ConnIds == 1..MaxConns
CallIds == 1..MaxCalls
StreamIds == 1..MaxStreams

Modes == {"landing", "share", "view"}
Statuses == {"disconnected", "connecting", "connected"}
Errors == {"null", "peerError", "connError", "callError", "noViewer",
           "screenFailed", "connectFailed"}
RemoteIds == {"", "abc"}

VARIABLES
    mode,              \* useState mode
    peerId,            \* useState peerId: 0 is '', p is the id the server gave peer p
    remotePeerId,      \* useState remotePeerId
    connectionStatus,  \* useState connectionStatus
    error,             \* useState error
    stream,            \* useState stream: 0 is null, else a stream id
    effStream,         \* `stream` as seen by the closures of the running effect
    peerRef,           \* peerRef.current: 0 is null
    peers,             \* peers[p]: "none", "new", "open", "destroyed"
    connectionRef,     \* connectionRef.current: 0 is null
    conns,             \* conns[c]: "none", "pending", "open", "closed"
    callRef,           \* callRef.current: 0 is null
    calls,             \* calls[k]: [state: "none"|"open"|"closed", stream]
    videoSrc,          \* videoRef.current.srcObject (0 when null or no element)
    streams,           \* streams[s]: [kind: "none"|"capture"|"remote", live, cap]
    pending,           \* getDisplayMedia promises not yet settled: the `stream`
                       \* each awaiting startScreenShare closure captured
    callHandlers,      \* number of listeners of the 'call' event of the current Peer
    lastEvent          \* history: the handler that ran last

vars == <<mode, peerId, remotePeerId, connectionStatus, error, stream, effStream,
          peerRef, peers, connectionRef, conns, callRef, calls, videoSrc,
          streams, pending, callHandlers, lastEvent>>

\* the <video> element exists in the share and view layouts only
videoMounted == mode # "landing"

NoCall == [state |-> "none", stream |-> 0]
NoStream == [kind |-> "none", live |-> FALSE, cap |-> 0]

FreeConns == {c \in ConnIds : conns[c] = "none"}
FreeCalls == {k \in CallIds : calls[k].state = "none"}
FreeStreams == {s \in StreamIds : streams[s].kind = "none"}
Lowest(S) == CHOOSE x \in S : \A y \in S : x <= y

TypeOK ==
    /\ mode \in Modes
    /\ peerId \in 0..MaxSessions
    /\ remotePeerId \in RemoteIds
    /\ connectionStatus \in Statuses
    /\ error \in Errors
    /\ stream \in 0..MaxStreams
    /\ effStream \in 0..MaxStreams
    /\ peerRef \in 0..MaxSessions
    /\ peers \in [PeerIds -> {"none", "new", "open", "destroyed"}]
    /\ connectionRef \in 0..MaxConns
    /\ conns \in [ConnIds -> {"none", "pending", "open", "closed"}]
    /\ callRef \in 0..MaxCalls
    /\ calls \in [CallIds -> [state : {"none", "open", "closed"}, stream : 0..MaxStreams]]
    /\ videoSrc \in 0..MaxStreams
    /\ streams \in [StreamIds -> [kind : {"none", "capture", "remote"},
                                  live : BOOLEAN, cap : 0..MaxStreams]]
    /\ pending \in Seq(0..MaxStreams)
    /\ Len(pending) <= MaxPending
    /\ callHandlers \in 0..MaxConns

Init ==
    /\ mode = "landing"
    /\ peerId = 0
    /\ remotePeerId = ""
    /\ connectionStatus = "disconnected"
    /\ error = "null"
    /\ stream = 0
    /\ effStream = 0
    /\ peerRef = 0
    /\ peers = [p \in PeerIds |-> "none"]
    /\ connectionRef = 0
    /\ conns = [c \in ConnIds |-> "none"]
    /\ callRef = 0
    /\ calls = [k \in CallIds |-> NoCall]
    /\ videoSrc = 0
    /\ streams = [s \in StreamIds |-> NoStream]
    /\ pending = <<>>
    /\ callHandlers = 0
    /\ lastEvent = "init"

(***************************************************************************)
(* What the handlers below read and write, as one record, so that a        *)
(* handler that runs inside another one can be applied to its caller's     *)
(* intermediate state.                                                     *)
(***************************************************************************)
Res == [stream |-> stream, videoSrc |-> videoSrc, streams |-> streams,
        callRef |-> callRef, calls |-> calls,
        connectionStatus |-> connectionStatus]

\* track.stop() on every track of stream s
StopTracks(ss, s) == IF s = 0 THEN ss ELSE [ss EXCEPT ![s].live = FALSE]

\* call.on('close') of a call answered in view mode; calls placed in share mode
\* register an 'error' handler only
callCloseHandler(mounted, r) ==
    IF mode = "view"
    THEN [r EXCEPT !.videoSrc = IF mounted THEN 0 ELSE @,
                   !.connectionStatus = "disconnected"]
    ELSE r

\* MediaConnection.close() on call k (k = 0: no call)
closeCall(k, mounted, r) ==
    IF k # 0 /\ r.calls[k].state = "open"
    THEN callCloseHandler(mounted, [r EXCEPT !.calls[k].state = "closed"])
    ELSE r

\* stopScreenShare of a render whose `stream` was cap
stopScreenShare(cap, mounted, r) ==
    LET r1 == IF cap # 0
              THEN [r EXCEPT !.streams = StopTracks(@, cap), !.stream = 0]
              ELSE r
        r2 == IF mounted /\ r1.videoSrc # 0
              THEN [r1 EXCEPT !.streams = StopTracks(@, r1.videoSrc), !.videoSrc = 0]
              ELSE r1
        r3 == IF r2.callRef # 0
              THEN [closeCall(r2.callRef, mounted, r2) EXCEPT !.callRef = 0]
              ELSE r2
    IN r3

\* conn.on('close'): the share-mode handler of the 'connection' event, or the
\* view-mode handler of connectToPeer
connCloseHandler(mounted, r) ==
    IF mode = "share"
    THEN stopScreenShare(effStream, mounted,
                         [r EXCEPT !.connectionStatus = "disconnected"])
    ELSE [r EXCEPT !.connectionStatus = "disconnected",
                   !.videoSrc = IF mounted THEN 0 ELSE @]

\* write a record of the above back to the variables
Apply(r) ==
    /\ stream' = r.stream
    /\ videoSrc' = r.videoSrc
    /\ streams' = r.streams
    /\ callRef' = r.callRef
    /\ calls' = r.calls
    /\ connectionStatus' = r.connectionStatus

(***************************************************************************)
(* Mode selection and the Peer                                             *)
(***************************************************************************)

\* onClick={() => setMode(m)} on the landing page, then the effect of the
\* render with the new mode
SelectMode(m) ==
    /\ mode = "landing"
    /\ \E p \in PeerIds :
        /\ peers[p] = "none"
        /\ \A q \in PeerIds : q < p => peers[q] # "none"
        /\ peers' = [q \in PeerIds |->
                        IF q = p THEN "new"
                        ELSE IF q = peerRef THEN "destroyed" ELSE peers[q]]
        /\ peerRef' = p
    /\ mode' = m
    /\ callHandlers' = IF m = "view" THEN 1 ELSE 0
    /\ effStream' = stream
    /\ videoSrc' = 0
    /\ lastEvent' = "selectMode"
    /\ UNCHANGED <<peerId, remotePeerId, connectionStatus, error, stream,
                   connectionRef, conns, callRef, calls, streams, pending>>

\* peer.on('open')
PeerOpen ==
    /\ UNCHANGED callHandlers
    /\ peerRef # 0
    /\ peers[peerRef] = "new"
    /\ peers' = [peers EXCEPT ![peerRef] = "open"]
    /\ peerId' = peerRef
    /\ error' = "null"
    /\ lastEvent' = "peerOpen"
    /\ UNCHANGED <<mode, remotePeerId, connectionStatus, stream, effStream, peerRef,
                   connectionRef, conns, callRef, calls, videoSrc, streams, pending>>

\* peer.on('error')
PeerError ==
    /\ UNCHANGED callHandlers
    /\ peerRef # 0
    /\ peers[peerRef] \in {"new", "open"}
    /\ error' = "peerError"
    /\ connectionStatus' = "disconnected"
    /\ lastEvent' = "peerError"
    /\ UNCHANGED <<mode, peerId, remotePeerId, stream, effStream, peerRef, peers,
                   connectionRef, conns, callRef, calls, videoSrc, streams, pending>>

(***************************************************************************)
(* The signaling channel (DataConnection)                                  *)
(***************************************************************************)

\* peer.on('connection') in share mode: a remote peer asks for a channel
InboundConnection ==
    /\ UNCHANGED callHandlers
    /\ mode = "share"
    /\ peerRef # 0
    /\ peers[peerRef] = "open"
    /\ FreeConns # {}
    /\ LET c == Lowest(FreeConns)
       IN /\ conns' = [conns EXCEPT ![c] = "pending"]
          /\ connectionRef' = c
    /\ lastEvent' = "connection"
    /\ UNCHANGED <<mode, peerId, remotePeerId, connectionStatus, error, stream,
                   effStream, peerRef, peers, callRef, calls, videoSrc, streams,
                   pending>>

\* conn.on('open'), share and view mode
ConnOpen(c) ==
    /\ UNCHANGED callHandlers
    /\ conns[c] = "pending"
    /\ conns' = [conns EXCEPT ![c] = "open"]
    /\ connectionStatus' = "connected"
    /\ lastEvent' = "connOpen"
    /\ UNCHANGED <<mode, peerId, remotePeerId, error, stream, effStream, peerRef,
                   peers, connectionRef, callRef, calls, videoSrc, streams, pending>>

\* conn.on('close'): the remote side or the transport closed channel c
ConnClose(c) ==
    /\ UNCHANGED callHandlers
    /\ conns[c] = "open"
    /\ conns' = [conns EXCEPT ![c] = "closed"]
    /\ Apply(connCloseHandler(videoMounted, Res))
    /\ lastEvent' = "connClose"
    /\ UNCHANGED <<mode, peerId, remotePeerId, error, effStream, peerRef, peers,
                   connectionRef, pending>>

\* conn.on('error'): share mode reports it, view mode also sets the status
ConnError(c) ==
    /\ UNCHANGED callHandlers
    /\ conns[c] \in {"pending", "open"}
    /\ error' = "connError"
    /\ connectionStatus' = IF mode = "view" THEN "disconnected" ELSE connectionStatus
    /\ lastEvent' = "connError"
    /\ UNCHANGED <<mode, peerId, remotePeerId, stream, effStream, peerRef, peers,
                   connectionRef, conns, callRef, calls, videoSrc, streams, pending>>

\* onChange of the Connection ID input, rendered in view mode while disconnected
SetRemotePeerId(v) ==
    /\ UNCHANGED callHandlers
    /\ mode = "view"
    /\ connectionStatus = "disconnected"
    /\ remotePeerId # v
    /\ remotePeerId' = v
    /\ lastEvent' = "setRemotePeerId"
    /\ UNCHANGED <<mode, peerId, connectionStatus, error, stream, effStream, peerRef,
                   peers, connectionRef, conns, callRef, calls, videoSrc, streams,
                   pending>>

\* the Connect button: rendered in view mode while disconnected, disabled while
\* the input is empty
ConnectButtonEnabled ==
    /\ mode = "view"
    /\ connectionStatus = "disconnected"
    /\ remotePeerId # ""

\* connectToPeer
connectToPeer ==
    IF remotePeerId = "" \/ peerRef = 0
    THEN UNCHANGED <<connectionStatus, error, connectionRef, conns, videoSrc>>
    ELSE LET c == Lowest(FreeConns)
             r0 == [Res EXCEPT !.connectionStatus = "connecting"]
             \* connectionRef.current.close() on the previous channel
             r1 == IF connectionRef # 0 /\ conns[connectionRef] = "open"
                   THEN connCloseHandler(videoMounted, r0)
                   ELSE r0
             closed == IF connectionRef # 0
                       THEN [conns EXCEPT ![connectionRef] = "closed"]
                       ELSE conns
         IN /\ error' = "null"
            /\ connectionStatus' = r1.connectionStatus
            /\ videoSrc' = r1.videoSrc
            /\ conns' = [closed EXCEPT ![c] = "pending"]
            /\ connectionRef' = c

\* Connect with neither the button's disabled={!remotePeerId} nor the test of
\* remotePeerId at the head of connectToPeer
Connect_NoIdTest ==
    /\ UNCHANGED callHandlers
    /\ mode = "view"
    /\ IF mode = "view" /\ connectionStatus = "disconnected"
       THEN /\ FreeConns # {}
            /\ LET c == Lowest(FreeConns)
                   closed == IF connectionRef # 0
                             THEN [conns EXCEPT ![connectionRef] = "closed"]
                             ELSE conns
               IN /\ error' = "null"
                  /\ connectionStatus' = "connecting"
                  /\ conns' = [closed EXCEPT ![c] = "pending"]
                  /\ connectionRef' = c
            /\ UNCHANGED videoSrc
            /\ lastEvent' = "connect"
       ELSE /\ lastEvent' = "connectRejected"
            /\ UNCHANGED <<connectionStatus, error, connectionRef, conns, videoSrc>>
    /\ UNCHANGED <<mode, peerId, remotePeerId, stream, effStream, peerRef, peers,
                   callRef, calls, streams, pending>>

\* the connect intent
Connect ==
    /\ UNCHANGED callHandlers
    /\ mode = "view"
    /\ IF ConnectButtonEnabled
       THEN /\ FreeConns # {}
            /\ connectToPeer
            /\ lastEvent' = "connect"
       ELSE /\ lastEvent' = "connectRejected"
            /\ UNCHANGED <<connectionStatus, error, connectionRef, conns, videoSrc>>
    /\ UNCHANGED <<mode, peerId, remotePeerId, stream, effStream, peerRef, peers,
                   callRef, calls, streams, pending>>

(***************************************************************************)
(* The media call (MediaConnection)                                        *)
(***************************************************************************)

\* peer.on('call') in view mode: the call is tracked and answered
InboundCall ==
    /\ UNCHANGED callHandlers
    /\ mode = "view"
    /\ peerRef # 0
    /\ peers[peerRef] = "open"
    /\ FreeCalls # {}
    /\ LET k == Lowest(FreeCalls)
       IN /\ calls' = [calls EXCEPT ![k] = [state |-> "open", stream |-> 0]]
          /\ callRef' = k
    /\ lastEvent' = "call"
    /\ UNCHANGED <<mode, peerId, remotePeerId, connectionStatus, error, stream,
                   effStream, peerRef, peers, connectionRef, conns, videoSrc,
                   streams, pending>>

\* CallStream with a 'stream' handler that also sets the status
CallStream_SetsStatus(k) ==
    /\ UNCHANGED callHandlers
    /\ mode = "view"
    /\ calls[k].state = "open"
    /\ IF calls[k].stream # 0
       THEN /\ videoSrc' = calls[k].stream
            /\ UNCHANGED <<calls, streams>>
       ELSE /\ FreeStreams # {}
            /\ LET s == Lowest(FreeStreams)
               IN /\ streams' = [streams EXCEPT
                                    ![s] = [kind |-> "remote", live |-> TRUE, cap |-> 0]]
                  /\ calls' = [calls EXCEPT ![k].stream = s]
                  /\ videoSrc' = s
    /\ connectionStatus' = "connected"
    /\ lastEvent' = "callStream"
    /\ UNCHANGED <<mode, peerId, remotePeerId, error, stream,
                   effStream, peerRef, peers, connectionRef, conns, callRef, pending>>

\* call.on('stream') in view mode: the remote stream of call k is bound to the
\* <video> element
CallStream(k) ==
    /\ UNCHANGED callHandlers
    /\ mode = "view"
    /\ calls[k].state = "open"
    /\ IF calls[k].stream # 0
       THEN /\ videoSrc' = calls[k].stream
            /\ UNCHANGED <<calls, streams>>
       ELSE /\ FreeStreams # {}
            /\ LET s == Lowest(FreeStreams)
               IN /\ streams' = [streams EXCEPT
                                    ![s] = [kind |-> "remote", live |-> TRUE, cap |-> 0]]
                  /\ calls' = [calls EXCEPT ![k].stream = s]
                  /\ videoSrc' = s
    /\ lastEvent' = "callStream"
    /\ UNCHANGED <<mode, peerId, remotePeerId, connectionStatus, error, stream,
                   effStream, peerRef, peers, connectionRef, conns, callRef, pending>>

\* call.on('close'): the remote side closed call k
CallClose(k) ==
    /\ UNCHANGED callHandlers
    /\ calls[k].state = "open"
    /\ Apply(closeCall(k, videoMounted, Res))
    /\ lastEvent' = "callClose"
    /\ UNCHANGED <<mode, peerId, remotePeerId, error, effStream, peerRef, peers,
                   connectionRef, conns, pending>>

\* call.on('error'), share and view mode
CallError(k) ==
    /\ UNCHANGED callHandlers
    /\ calls[k].state = "open"
    /\ error' = "callError"
    /\ lastEvent' = "callError"
    /\ UNCHANGED <<mode, peerId, remotePeerId, connectionStatus, stream, effStream,
                   peerRef, peers, connectionRef, conns, callRef, calls, videoSrc,
                   streams, pending>>

(***************************************************************************)
(* Capture                                                                 *)
(***************************************************************************)

\* StartButtonRendered without the connectionStatus === 'connected' test
StartButtonRendered_NoPhaseTest ==
    /\ mode = "share"
    /\ stream = 0

\* the Start Sharing button is rendered
StartButtonRendered ==
    /\ mode = "share"
    /\ connectionStatus = "connected"
    /\ stream = 0

\* the Stop Sharing button is rendered
StopButtonRendered ==
    /\ mode = "share"
    /\ stream # 0

\* the start-sharing intent; startScreenShare up to its await
StartSharing ==
    /\ UNCHANGED callHandlers
    /\ IF StartButtonRendered
       THEN /\ Len(pending) < MaxPending
            /\ Apply(stopScreenShare(stream, videoMounted, Res))
            /\ pending' = Append(pending, stream)
            /\ lastEvent' = "startSharing"
       ELSE /\ lastEvent' = "startSharingRejected"
            /\ UNCHANGED <<stream, videoSrc, streams, callRef, calls,
                           connectionStatus, pending>>
    /\ UNCHANGED <<mode, peerId, remotePeerId, error, effStream, peerRef, peers,
                   connectionRef, conns>>

\* startScreenShare after its await, getDisplayMedia resolved: pending request i
GetDisplayMediaResolve(i) ==
    /\ UNCHANGED callHandlers
    /\ i \in 1..Len(pending)
    /\ FreeStreams # {}
    /\ LET ms == Lowest(FreeStreams)
           ready == /\ connectionRef # 0
                    /\ conns[connectionRef] = "open"
                    /\ peerRef # 0
       IN /\ streams' = [streams EXCEPT
                            ![ms] = [kind |-> "capture", live |-> TRUE, cap |-> pending[i]]]
          /\ stream' = ms
          /\ videoSrc' = IF videoMounted THEN ms ELSE videoSrc
          /\ IF ready
             THEN /\ FreeCalls # {}
                  /\ LET k == Lowest(FreeCalls)
                     IN /\ calls' = [calls EXCEPT ![k] = [state |-> "open", stream |-> ms]]
                        /\ callRef' = k
                  /\ UNCHANGED error
             ELSE /\ error' = "noViewer"
                  /\ UNCHANGED <<calls, callRef>>
    /\ pending' = [j \in 1..(Len(pending) - 1) |->
                      IF j < i THEN pending[j] ELSE pending[j + 1]]
    /\ lastEvent' = "captureResolved"
    /\ UNCHANGED <<mode, peerId, remotePeerId, connectionStatus, effStream, peerRef,
                   peers, connectionRef, conns>>

\* GetDisplayMediaReject with a catch block that also resets the status
GetDisplayMediaReject_ResetsStatus(i) ==
    /\ UNCHANGED callHandlers
    /\ i \in 1..Len(pending)
    /\ error' = "screenFailed"
    /\ connectionStatus' = "disconnected"
    /\ pending' = [j \in 1..(Len(pending) - 1) |->
                      IF j < i THEN pending[j] ELSE pending[j + 1]]
    /\ lastEvent' = "captureRejected"
    /\ UNCHANGED <<mode, peerId, remotePeerId, stream, effStream, peerRef, peers,
                   connectionRef, conns, callRef, calls, videoSrc, streams>>

\* startScreenShare's catch, getDisplayMedia rejected: pending request i
GetDisplayMediaReject(i) ==
    /\ UNCHANGED callHandlers
    /\ i \in 1..Len(pending)
    /\ error' = "screenFailed"
    /\ pending' = [j \in 1..(Len(pending) - 1) |->
                      IF j < i THEN pending[j] ELSE pending[j + 1]]
    /\ lastEvent' = "captureRejected"
    /\ UNCHANGED <<mode, peerId, remotePeerId, connectionStatus, stream, effStream,
                   peerRef, peers, connectionRef, conns, callRef, calls, videoSrc,
                   streams>>

\* onended of the video track of capture s: the platform ended the capture
TrackEnded(s) ==
    /\ UNCHANGED callHandlers
    /\ streams[s].kind = "capture"
    /\ streams[s].live
    /\ Apply(stopScreenShare(streams[s].cap, videoMounted,
                             [Res EXCEPT !.streams = StopTracks(@, s)]))
    /\ lastEvent' = "trackEnded"
    /\ UNCHANGED <<mode, peerId, remotePeerId, error, effStream, peerRef, peers,
                   connectionRef, conns, pending>>

\* the stop-sharing intent: onClick={stopScreenShare} of the current render
StopSharing ==
    /\ UNCHANGED callHandlers
    /\ IF StopButtonRendered
       THEN /\ Apply(stopScreenShare(stream, videoMounted, Res))
            /\ lastEvent' = "stopSharing"
       ELSE /\ lastEvent' = "stopSharingRejected"
            /\ UNCHANGED <<stream, videoSrc, streams, callRef, calls, connectionStatus>>
    /\ UNCHANGED <<mode, peerId, remotePeerId, error, effStream, peerRef, peers,
                   connectionRef, conns, pending>>

(***************************************************************************)
(* Teardown                                                                *)
(***************************************************************************)

\* peer.destroy(): every connection of the peer is closed; the handlers that
\* then run find no <video> element (the effect cleanup runs after the commit)
destroyPeer(r) ==
    LET r1 == IF \E c \in ConnIds : conns[c] = "open"
              THEN connCloseHandler(FALSE, r)
              ELSE r
        r2 == IF \E k \in CallIds : r1.calls[k].state = "open"
              THEN callCloseHandler(FALSE, r1)
              ELSE r1
    IN [r2 EXCEPT !.calls = [k \in CallIds |->
                    IF r2.calls[k].state = "open"
                    THEN [r2.calls[k] EXCEPT !.state = "closed"]
                    ELSE r2.calls[k]]]

\* an effect cleanup that leaves the Peer registered
peerDestroyed_Kept == peers

\* peer.destroy() in the effect cleanup: the session's Peer is gone
peerDestroyed == [peers EXCEPT ![peerRef] = "destroyed"]

\* what the body of disconnect writes, and the state it is called in, as records
disconnectState ==
    [res |-> Res, connectionRef |-> connectionRef, conns |-> conns, mode |-> mode,
     error |-> error, remotePeerId |-> remotePeerId]

\* the body of disconnect, as the state it leaves
disconnectBody ==
    LET r0 == Res
        \* connectionRef.current.close(); connectionRef.current = null
        r1 == IF connectionRef # 0 /\ conns[connectionRef] = "open"
              THEN connCloseHandler(videoMounted, r0)
              ELSE r0
        \* callRef.current.close(); callRef.current = null
        r2 == [closeCall(r1.callRef, videoMounted, r1) EXCEPT !.callRef = 0]
        r3 == stopScreenShare(stream, videoMounted, r2)
        \* setConnectionStatus, setMode, setError, setRemotePeerId; the <video>
        \* element is unmounted
        r4 == [r3 EXCEPT !.connectionStatus = "disconnected", !.videoSrc = 0]
    IN [res |-> r4,
        connectionRef |-> 0,
        conns |-> [c \in ConnIds |->
                      IF c = connectionRef /\ conns[c] \in {"pending", "open"}
                      THEN "closed" ELSE conns[c]],
        mode |-> "landing",
        error |-> "null",
        remotePeerId |-> ""]

\* disconnect, the re-render with mode 'landing' and the cleanup of the effect
disconnect ==
    LET b == disconnectBody
        \* effect cleanup: the refs are null by now
        r5 == stopScreenShare(effStream, FALSE, b.res)
        r6 == destroyPeer(r5)
    IN /\ Apply(r6)
       /\ connectionRef' = b.connectionRef
       /\ conns' = [c \in ConnIds |->
                       IF b.conns[c] \in {"pending", "open"} THEN "closed"
                       ELSE b.conns[c]]
       /\ peers' = peerDestroyed
       /\ callHandlers' = 0
       /\ mode' = b.mode
       /\ error' = b.error
       /\ remotePeerId' = b.remotePeerId

\* the disconnect intent: the Disconnect button is rendered in share and view mode
Disconnect ==
    /\ IF mode # "landing"
       THEN /\ disconnect
            /\ lastEvent' = "disconnect"
       ELSE /\ lastEvent' = "disconnectRejected"
            /\ UNCHANGED <<mode, remotePeerId, connectionStatus, error, stream, peers,
                           connectionRef, conns, callRef, calls, videoSrc, streams,
                           callHandlers>>
    /\ UNCHANGED <<peerId, effStream, peerRef, pending>>

Next ==
    \/ \E m \in {"share", "view"} : SelectMode(m)
    \/ PeerOpen
    \/ PeerError
    \/ InboundConnection
    \/ \E c \in ConnIds : ConnOpen(c)
    \/ \E c \in ConnIds : ConnClose(c)
    \/ \E c \in ConnIds : ConnError(c)
    \/ \E v \in RemoteIds : SetRemotePeerId(v)
    \/ Connect
    \/ InboundCall
    \/ \E k \in CallIds : CallStream(k)
    \/ \E k \in CallIds : CallClose(k)
    \/ \E k \in CallIds : CallError(k)
    \/ StartSharing
    \/ \E i \in 1..MaxPending : GetDisplayMediaResolve(i)
    \/ \E i \in 1..MaxPending : GetDisplayMediaReject(i)
    \/ \E s \in StreamIds : TrackEnded(s)
    \/ StopSharing
    \/ Disconnect

Spec == Init /\ [][Next]_vars

\* Sessions in which the user always takes the sharer role
NextShare ==
    \/ SelectMode("share")
    \/ PeerOpen
    \/ PeerError
    \/ InboundConnection
    \/ \E c \in ConnIds : ConnOpen(c)
    \/ \E c \in ConnIds : ConnClose(c)
    \/ \E c \in ConnIds : ConnError(c)
    \/ \E k \in CallIds : CallClose(k)
    \/ \E k \in CallIds : CallError(k)
    \/ StartSharing
    \/ \E i \in 1..MaxPending : GetDisplayMediaResolve(i)
    \/ \E i \in 1..MaxPending : GetDisplayMediaReject(i)
    \/ \E s \in StreamIds : TrackEnded(s)
    \/ StopSharing
    \/ Disconnect

SpecShare == Init /\ [][NextShare]_vars

\* Sessions in which the user always takes the viewer role
NextView ==
    \/ SelectMode("view")
    \/ PeerOpen
    \/ PeerError
    \/ \E c \in ConnIds : ConnOpen(c)
    \/ \E c \in ConnIds : ConnClose(c)
    \/ \E c \in ConnIds : ConnError(c)
    \/ \E v \in RemoteIds : SetRemotePeerId(v)
    \/ Connect
    \/ InboundCall
    \/ \E k \in CallIds : CallStream(k)
    \/ \E k \in CallIds : CallClose(k)
    \/ \E k \in CallIds : CallError(k)
    \/ Disconnect

SpecView == Init /\ [][NextView]_vars

(***************************************************************************)
(* The viewer side of the earlier App (src/src/App.tsx), which has no       *)
(* `stream` state and no callRef: `stream`, effStream, callRef and pending  *)
(* keep their initial values.                                               *)
(***************************************************************************)

\* Landing-page View button: setMode('view'); the effect creates the Peer and
\* registers 'open' and 'error' only
App_SelectMode ==
    /\ mode = "landing"
    /\ \E p \in PeerIds :
        /\ peers[p] = "none"
        /\ \A q \in PeerIds : q < p => peers[q] # "none"
        /\ peers' = [peers EXCEPT ![p] = "new"]
        /\ peerRef' = p
    /\ mode' = "view"
    /\ callHandlers' = 0
    /\ videoSrc' = 0
    /\ lastEvent' = "selectMode"
    /\ UNCHANGED <<peerId, remotePeerId, connectionStatus, error, stream, effStream,
                   connectionRef, conns, callRef, calls, streams, pending>>

\* peer.on('open')
App_PeerOpen ==
    /\ peerRef # 0
    /\ peers[peerRef] = "new"
    /\ peers' = [peers EXCEPT ![peerRef] = "open"]
    /\ peerId' = peerRef
    /\ lastEvent' = "peerOpen"
    /\ UNCHANGED <<mode, remotePeerId, connectionStatus, error, stream, effStream,
                   peerRef, connectionRef, conns, callRef, calls, videoSrc, streams,
                   pending, callHandlers>>

\* peer.on('error')
App_PeerError ==
    /\ peerRef # 0
    /\ peers[peerRef] \in {"new", "open"}
    /\ error' = "peerError"
    /\ connectionStatus' = "disconnected"
    /\ lastEvent' = "peerError"
    /\ UNCHANGED <<mode, peerId, remotePeerId, stream, effStream, peerRef, peers,
                   connectionRef, conns, callRef, calls, videoSrc, streams, pending,
                   callHandlers>>

\* onChange of the Connection ID input
App_SetRemotePeerId(v) ==
    /\ mode = "view"
    /\ connectionStatus = "disconnected"
    /\ remotePeerId # v
    /\ remotePeerId' = v
    /\ lastEvent' = "setRemotePeerId"
    /\ UNCHANGED <<mode, peerId, connectionStatus, error, stream, effStream, peerRef,
                   peers, connectionRef, conns, callRef, calls, videoSrc, streams,
                   pending, callHandlers>>

\* connectToPeer: the previous channel is not closed and `error` is not cleared
App_connectToPeer ==
    IF remotePeerId = "" \/ peerRef = 0
    THEN UNCHANGED <<connectionStatus, connectionRef, conns>>
    ELSE LET c == Lowest(FreeConns)
         IN /\ connectionStatus' = "connecting"
            /\ conns' = [conns EXCEPT ![c] = "pending"]
            /\ connectionRef' = c

\* the connect intent
App_Connect ==
    /\ mode = "view"
    /\ IF ConnectButtonEnabled
       THEN /\ FreeConns # {}
            /\ App_connectToPeer
            /\ lastEvent' = "connect"
       ELSE /\ lastEvent' = "connectRejected"
            /\ UNCHANGED <<connectionStatus, connectionRef, conns>>
    /\ UNCHANGED <<mode, peerId, remotePeerId, error, stream, effStream, peerRef,
                   peers, callRef, calls, videoSrc, streams, pending, callHandlers>>

\* conn.on('open'): sets the status and registers one more listener of the
\* Peer's 'call' event
App_ConnOpen(c) ==
    /\ mode = "view"
    /\ conns[c] = "pending"
    /\ conns' = [conns EXCEPT ![c] = "open"]
    /\ connectionStatus' = "connected"
    /\ callHandlers' = callHandlers + 1
    /\ lastEvent' = "connOpen"
    /\ UNCHANGED <<mode, peerId, remotePeerId, error, stream, effStream, peerRef,
                   peers, connectionRef, callRef, calls, videoSrc, streams, pending>>
\* conn.on('close')
App_ConnClose(c) ==
    /\ mode = "view"
    /\ conns[c] = "open"
    /\ conns' = [conns EXCEPT ![c] = "closed"]
    /\ connectionStatus' = "disconnected"
    /\ lastEvent' = "connClose"
    /\ UNCHANGED <<mode, peerId, remotePeerId, error, stream, effStream, peerRef,
                   peers, connectionRef, callRef, calls, videoSrc, streams, pending,
                   callHandlers>>

\* conn.on('error')
App_ConnError(c) ==
    /\ mode = "view"
    /\ conns[c] \in {"pending", "open"}
    /\ error' = "connError"
    /\ connectionStatus' = "disconnected"
    /\ lastEvent' = "connError"
    /\ UNCHANGED <<mode, peerId, remotePeerId, stream, effStream, peerRef, peers,
                   connectionRef, conns, callRef, calls, videoSrc, streams, pending,
                   callHandlers>>

\* the Peer's 'call' event: every registered listener answers the call (with
\* no listener the event is dropped)
App_InboundCall ==
    /\ mode = "view"
    /\ peerRef # 0
    /\ peers[peerRef] = "open"
    /\ callHandlers >= 1
    /\ FreeCalls # {}
    /\ calls' = [calls EXCEPT ![Lowest(FreeCalls)] = [state |-> "open", stream |-> 0]]
    /\ lastEvent' = "call"
    /\ UNCHANGED <<mode, peerId, remotePeerId, connectionStatus, error, stream,
                   effStream, peerRef, peers, connectionRef, conns, callRef, videoSrc,
                   streams, pending, callHandlers>>

\* call.on('stream'): every listener's handler binds the remote stream
App_CallStream(k) ==
    /\ mode = "view"
    /\ calls[k].state = "open"
    /\ IF calls[k].stream # 0
       THEN /\ videoSrc' = calls[k].stream
            /\ UNCHANGED <<calls, streams>>
       ELSE /\ FreeStreams # {}
            /\ LET s == Lowest(FreeStreams)
               IN /\ streams' = [streams EXCEPT
                                    ![s] = [kind |-> "remote", live |-> TRUE, cap |-> 0]]
                  /\ calls' = [calls EXCEPT ![k].stream = s]
                  /\ videoSrc' = s
    /\ lastEvent' = "callStream"
    /\ UNCHANGED <<mode, peerId, remotePeerId, connectionStatus, error, stream,
                   effStream, peerRef, peers, connectionRef, conns, callRef, pending,
                   callHandlers>>

\* disconnect, the re-render with mode 'landing' and the effect cleanup:
\* connectionRef.current is closed but not nulled, peer.destroy() closes every
\* other connection, stopScreenShare stops what the <video> element shows
App_disconnect ==
    /\ conns' = [c \in ConnIds |->
                    IF conns[c] \in {"pending", "open"} THEN "closed" ELSE conns[c]]
    /\ calls' = [k \in CallIds |->
                    IF calls[k].state = "open"
                    THEN [calls[k] EXCEPT !.state = "closed"] ELSE calls[k]]
    /\ streams' = StopTracks(streams, videoSrc)
    /\ videoSrc' = 0
    /\ connectionStatus' = "disconnected"
    /\ mode' = "landing"
    /\ peers' = [peers EXCEPT ![peerRef] = "destroyed"]
    /\ callHandlers' = 0

\* the disconnect intent
App_Disconnect ==
    /\ IF mode # "landing"
       THEN /\ App_disconnect
            /\ lastEvent' = "disconnect"
       ELSE /\ lastEvent' = "disconnectRejected"
            /\ UNCHANGED <<mode, connectionStatus, peers, conns, calls, videoSrc,
                           streams, callHandlers>>
    /\ UNCHANGED <<peerId, remotePeerId, error, stream, effStream, peerRef,
                   connectionRef, callRef, pending>>

NextAppView ==
    \/ App_SelectMode
    \/ App_PeerOpen
    \/ App_PeerError
    \/ \E v \in RemoteIds : App_SetRemotePeerId(v)
    \/ App_Connect
    \/ \E c \in ConnIds : App_ConnOpen(c)
    \/ \E c \in ConnIds : App_ConnClose(c)
    \/ \E c \in ConnIds : App_ConnError(c)
    \/ App_InboundCall
    \/ \E k \in CallIds : App_CallStream(k)
    \/ App_Disconnect

SpecAppView == Init /\ [][NextAppView]_vars

(***************************************************************************)
(* Properties                                                              *)
(***************************************************************************)

OpenCalls == {k \in CallIds : calls[k].state = "open"}
OpenConns == {c \in ConnIds : conns[c] = "open"}
LiveCaptures == {s \in StreamIds : streams[s].kind = "capture" /\ streams[s].live}

\* C1: in every reachable state a non-null `stream` (captureActive) implies
\* mode = 'share' (role = Sharer).
C1_CaptureImpliesSharer ==
    stream # 0 => mode = "share"

\* C2: at most one signaling channel is open, and an open channel is the one
\* the session currently tracks: adopting a new channel closes the previous one.
C2_OneOpenChannel ==
    /\ Cardinality(OpenConns) <= 1
    /\ \A c \in OpenConns : c = connectionRef

\* C3: at most one media call is open on either side, and an open call is the
\* one the session currently tracks: a new call closes the previous one first.
C3_OneOpenCall ==
    /\ Cardinality(OpenCalls) <= 1
    /\ \A k \in OpenCalls : k = callRef

\* C4: when the Sharer's tracked channel emits 'close' while the Sharer is
\* connected with capture active, the handler leaves the status disconnected,
\* the captured tracks stopped, the media call closed and `stream` null.
C4_ChannelCloseCascades ==
    [][(/\ lastEvent' = "connClose"
        /\ mode = "share"
        /\ connectionStatus = "connected"
        /\ stream # 0
        /\ streams[stream].live
        /\ connectionRef # 0
        /\ conns[connectionRef] = "open"
        /\ conns'[connectionRef] = "closed")
       => (/\ connectionStatus' = "disconnected"
           /\ ~streams'[stream].live
           /\ \A k \in CallIds : calls'[k].state # "open"
           /\ stream' = 0)]_vars

\* C5: when onended of the active capture fires while the Sharer is connected,
\* the Sharer ends connected with `stream` null and the media call closed, the
\* same state an explicit stop-sharing intent would give.
C5_EndedSameAsStop ==
    [][(/\ lastEvent' = "trackEnded"
        /\ mode = "share"
        /\ connectionStatus = "connected"
        /\ stream # 0
        /\ streams[stream].live
        /\ ~streams'[stream].live)
       => (/\ connectionStatus' = "connected"
           /\ stream' = 0
           /\ \A k \in CallIds : calls'[k].state # "open"
           /\ LET r == stopScreenShare(stream, videoMounted, Res)
              IN <<stream', videoSrc', streams', callRef', calls', connectionStatus'>>
                 = <<r.stream, r.videoSrc, r.streams, r.callRef, r.calls,
                     r.connectionStatus>>)]_vars

\* C6: on the Viewer, a 'close' of the inbound call while the channel is still
\* open clears the bound stream and leaves the status connected.
C6_CallCloseKeepsPhase ==
    [][(/\ lastEvent' = "callClose"
        /\ mode = "view"
        /\ connectionStatus = "connected"
        /\ connectionRef # 0
        /\ conns[connectionRef] = "open")
       => (/\ videoSrc' = 0
           /\ connectionStatus' = "connected")]_vars

\* C7: after the disconnect intent from a non-idle state every snapshot field
\* is back to its initial default and the channel, the media call, the capture
\* and the Peer are closed or released.
C7_DisconnectResetsAll ==
    lastEvent = "disconnect" =>
        /\ mode = "landing"
        /\ connectionStatus = "disconnected"
        /\ stream = 0
        /\ error = "null"
        /\ remotePeerId = ""
        /\ peerId = 0
        /\ OpenConns = {}
        /\ \A c \in ConnIds : conns[c] # "pending"
        /\ OpenCalls = {}
        /\ LiveCaptures = {}
        /\ \A p \in PeerIds : peers[p] \in {"none", "destroyed"}

\* C8: right after a getDisplayMedia request of a sharer session resolved, an
\* open media call carries the acquired stream: `stream` is never set without
\* a call being placed.
C8_CapturePlacesCall ==
    (lastEvent = "captureResolved" /\ mode = "share") =>
        /\ stream # 0
        /\ \E k \in OpenCalls : calls[k].stream = stream /\ k = callRef

\* C9: a start-sharing intent issued while the status is not connected, or while
\* a capture is active, starts no getDisplayMedia request, places no call and
\* leaves mode, status, `stream` and every resource handle unchanged.
C9_InvalidStartRejected ==
    [][(/\ lastEvent' \in {"startSharing", "startSharingRejected"}
        /\ (connectionStatus # "connected" \/ stream # 0))
       => (/\ lastEvent' = "startSharingRejected"
           /\ UNCHANGED <<mode, peerId, remotePeerId, connectionStatus, error, stream,
                          effStream, peerRef, peers, connectionRef, conns, callRef,
                          calls, videoSrc, streams, pending>>)]_vars

\* C9 witness: a start-sharing intent was rejected in a sharer session whose
\* status is not connected and whose capture is active.
C9_Witness ==
    /\ lastEvent = "startSharingRejected"
    /\ mode = "share"
    /\ connectionStatus # "connected"
    /\ stream # 0

\* C10: a failed capture acquisition is reported in `error` and changes nothing
\* else: `stream`, the calls, the status and the channel stay as they were,
\* and the accepted intent itself placed no call and changed none of them.
C10_FailedCaptureNotHalfApplied ==
    [][/\ (lastEvent' = "captureRejected" =>
              /\ error' = "screenFailed"
              /\ UNCHANGED <<mode, connectionStatus, stream, connectionRef, conns,
                             callRef, calls, videoSrc, streams>>)
       /\ (lastEvent' = "startSharing" =>
              /\ stream = 0
              /\ UNCHANGED <<mode, connectionStatus, stream, connectionRef, conns,
                             callRef, calls, error>>)]_vars

\* C10 witness: a request of a connected sharer with no capture was rejected;
\* the error is shown, no capture is active and no call is open.
C10_Witness ==
    /\ lastEvent = "captureRejected"
    /\ mode = "share"
    /\ error = "screenFailed"
    /\ connectionStatus = "connected"
    /\ stream = 0
    /\ OpenCalls = {}
    /\ connectionRef # 0
    /\ conns[connectionRef] = "open"

\* C11 (as claimed): a connect intent with an empty remotePeerId surfaces an
\* InvalidIntent error in `error`, creates no channel and leaves the status
\* disconnected.
C11_EmptyConnectReportsError ==
    [][(/\ lastEvent' \in {"connect", "connectRejected"}
        /\ mode = "view"
        /\ connectionStatus = "disconnected"
        /\ remotePeerId = "")
       => (/\ error' = "invalidIntent"
           /\ conns' = conns
           /\ connectionStatus' = "disconnected")]_vars

\* C11 (amended): a connect intent with an empty remotePeerId is ignored: no
\* channel is created, the status stays disconnected and `error`, like every
\* other field, is left as it was.
C11_EmptyConnectIgnored ==
    [][(/\ lastEvent' \in {"connect", "connectRejected"}
        /\ mode = "view"
        /\ connectionStatus = "disconnected"
        /\ remotePeerId = "")
       => (/\ connectionStatus' = "disconnected"
           /\ UNCHANGED <<mode, peerId, remotePeerId, error, stream, effStream,
                          peerRef, peers, connectionRef, conns, callRef, calls,
                          videoSrc, streams, pending>>)]_vars

\* C11 witness: a viewer whose Peer is open issued connect with an empty
\* remotePeerId while disconnected; no channel exists.
C11_Witness ==
    /\ lastEvent = "connectRejected"
    /\ mode = "view"
    /\ peers[peerRef] = "open"
    /\ remotePeerId = ""
    /\ connectionStatus = "disconnected"
    /\ \A c \in ConnIds : conns[c] = "none"

\* C12: a fatal 'error' event of the Peer received while the Sharer is
\* connected with a live capture leaves the status disconnected, the capture
\* released (tracks stopped, `stream` null) and the media call closed, as a
\* channel 'close' does.
C12_PeerErrorReleases ==
    [][(/\ lastEvent' = "peerError"
        /\ mode = "share"
        /\ connectionStatus = "connected"
        /\ stream # 0
        /\ streams[stream].live)
       => (/\ connectionStatus' = "disconnected"
           /\ stream' = 0
           /\ ~streams'[stream].live
           /\ \A k \in CallIds : calls'[k].state # "open")]_vars

\* C13: an 'error' event on the open, tracked channel only sets `error`: the
\* status, the channel, the tracked channel, the media call and the capture
\* are unchanged, in both roles.
C13_ChannelErrorOnlySetsError ==
    [][(/\ lastEvent' = "connError"
        /\ connectionRef # 0
        /\ conns[connectionRef] = "open"
        /\ connectionStatus = "connected")
       => (/\ error' = "connError"
           /\ UNCHANGED <<connectionStatus, connectionRef, conns, callRef, calls,
                          stream, streams>>)]_vars

\* C14: `error` is null right after the Peer's 'open', after a channel 'open'
\* that sets the status to connected, after a capture that succeeded with its
\* call placed, and after connect is issued again.
C14_ErrorClearedOnSuccess ==
    /\ lastEvent \in {"peerOpen", "connOpen", "connect"} => error = "null"
    /\ (/\ lastEvent = "captureResolved"
        /\ stream # 0
        /\ callRef # 0
        /\ calls[callRef].state = "open"
        /\ calls[callRef].stream = stream) => error = "null"

\* C15: within a session `peerId` is empty until the session's own Peer has
\* opened, and is never the id of another session's Peer.
C15_PeerIdOfThisSession ==
    (mode # "landing" /\ peerRef # 0)
        => /\ peers[peerRef] = "new" => peerId = 0
           /\ peerId \in {0, peerRef}

\* C16: whenever the status is connected, the tracked channel is one that has
\* opened and has not closed.
C16_ConnectedMeansTrackedOpen ==
    connectionStatus = "connected"
        => (connectionRef # 0 /\ conns[connectionRef] = "open")

\* C17: disconnect() called in the idle state (mode 'landing', no channel, no
\* call, no capture) leaves every field and every handle as it was.
C17_DisconnectFromIdleUnchanged ==
    (/\ mode = "landing"
     /\ connectionRef = 0
     /\ callRef = 0
     /\ stream = 0
     /\ OpenConns = {}
     /\ OpenCalls = {}
     /\ LiveCaptures = {})
        => disconnectBody = disconnectState

\* C18: on the viewer a 'stream' event binds the remote stream of an open call
\* to the <video> element in one step, in place of whatever was bound, and
\* changes neither the status, the mode nor `error`.
C18_StreamEventRebindsOnly ==
    [][lastEvent' = "callStream"
       => (/\ videoSrc' # 0
           /\ streams'[videoSrc'].kind = "remote"
           /\ \E k \in CallIds : /\ calls'[k].state = "open"
                                 /\ calls'[k].stream = videoSrc'
           /\ UNCHANGED <<mode, connectionStatus, error, callRef, stream>>)]_vars

\* C18 witness: two calls have delivered different streams and the 'stream'
\* event of the replacing call has just re-bound the <video> element to its
\* own stream.
C18_Witness ==
    /\ lastEvent = "callStream"
    /\ mode = "view"
    /\ \E k1, k2 \in CallIds :
        /\ k1 < k2
        /\ callRef = k2
        /\ calls[k1].stream # 0
        /\ calls[k2].stream # 0
        /\ calls[k1].stream # calls[k2].stream
        /\ videoSrc = calls[k2].stream

\* C19: once the session is torn down and no getDisplayMedia request is
\* pending, no capture stream has live tracks (in 'landing' no handler of the
\* torn-down session remains that could stop them later).
C19_NoLiveCaptureAfterTeardown ==
    (mode = "landing" /\ pending = <<>>) => LiveCaptures = {}

\* C20: when a getDisplayMedia request completes, `stream` is set only if the
\* status is connected, and if the status is no longer connected the
\* completion sets no `stream` and places no call.
C20_LateCaptureIsNoOp ==
    [][lastEvent' = "captureResolved"
       => (/\ stream' # 0 => connectionStatus' = "connected"
           /\ connectionStatus # "connected"
                 => UNCHANGED <<stream, callRef, calls>>)]_vars

\* C21: events of a resource that is no longer the current one have no effect:
\* a 'close' of a channel other than the tracked one changes neither the
\* status nor the capture, and a 'close' of a viewer call other than the
\* tracked one neither clears the bound stream nor changes the status.
C21_StaleEventsIgnored ==
    [][/\ (/\ lastEvent' = "connClose"
           /\ \E c \in ConnIds : /\ c # connectionRef
                                 /\ conns[c] = "open"
                                 /\ conns'[c] = "closed")
          => UNCHANGED <<connectionStatus, stream, streams, videoSrc, callRef, calls>>
       /\ (/\ lastEvent' = "callClose"
           /\ mode = "view"
           /\ \E k \in CallIds : /\ k # callRef
                                 /\ calls[k].state = "open"
                                 /\ calls'[k].state = "closed")
          => UNCHANGED <<connectionStatus, videoSrc>>]_vars

\* C22: when the viewer's channel reports 'close', the handler closes the
\* inbound call along with clearing the bound stream and setting the status
\* to disconnected.
C22_ViewerChannelCloseClosesCall ==
    [][(lastEvent' = "connClose" /\ mode = "view")
       => (/\ connectionStatus' = "disconnected"
           /\ videoSrc' = 0
           /\ \A k \in CallIds : calls'[k].state # "open")]_vars

\* C24: every step that sets the status to connected starts in a state whose
\* status is connecting.
C24_ConnectedOnlyFromConnecting ==
    [][(connectionStatus' = "connected" /\ connectionStatus # "connected")
       => connectionStatus = "connecting"]_vars

\* C23: a stop-sharing intent of a connected sharer with an active capture
\* leaves no capture track live, `stream` null and no media call open, and
\* keeps the status, the channel, the mode and `peerId`; a stop-sharing intent
\* with no active capture changes nothing.
C23_StopSharingReleases ==
    [][/\ (/\ lastEvent' = "stopSharing"
           /\ mode = "share"
           /\ connectionStatus = "connected"
           /\ stream # 0)
          => (/\ stream' = 0
              /\ \A s \in StreamIds : ~(streams'[s].kind = "capture" /\ streams'[s].live)
              /\ \A k \in CallIds : calls'[k].state # "open"
              /\ UNCHANGED <<connectionStatus, connectionRef, conns, mode, peerId>>)
       /\ (/\ lastEvent' \in {"stopSharing", "stopSharingRejected"}
           /\ stream = 0)
          => UNCHANGED <<mode, peerId, remotePeerId, connectionStatus, error, stream,
                         effStream, peerRef, peers, connectionRef, conns, callRef,
                         calls, videoSrc, streams, pending>>]_vars

\* C26: at most one Peer is alive at any time and none in 'landing'; the Peer
\* of the previous session is destroyed before the next one is created.
C26_OnePeerAlive ==
    /\ [](/\ Cardinality({p \in PeerIds : peers[p] \in {"new", "open"}}) <= 1
          /\ mode = "landing" => \A p \in PeerIds : peers[p] \in {"none", "destroyed"})
    /\ [][peerRef' # peerRef
          => /\ peerRef # 0 => peers[peerRef] = "destroyed"
             /\ peers'[peerRef'] = "new"]_vars

\* C26 witness: a second session is running with its own Peer open after the
\* first session was disconnected and its Peer destroyed.
C26_Witness ==
    /\ mode # "landing"
    /\ peerRef = 2
    /\ peers[1] = "destroyed"
    /\ peers[2] = "open"

\* C25: the current Peer has at most one listener of its 'call' event, however
\* many times a channel has opened in the session.
C25_CallHandlerRegisteredOnce ==
    callHandlers <= 1
====
